---- MODULE Spec2Model ----
(***************************************************************************)
(* State-machine model of src/.engine/coderabbitai.cpp: the CodeMemory     *)
(* pattern store, the CodeWorkbench and the coding session that main runs. *)
(*                                                                         *)
(* Text is a TLA+ string (strlen is Len, strcat is \o).  A char* field is  *)
(* NULL (the empty tuple) or a one-element tuple holding the text of the   *)
(* buffer it points to.  Undefined behaviour (a write outside an           *)
(* allocation, a read through NULL or through a released pointer) is a     *)
(* choice between the outcomes a build produces: the process is killed     *)
(* (crashed), or the access goes through on memory the object does not own.*)
(* malloc, strdup and realloc are taken to succeed.                        *)
(***************************************************************************)
EXTENDS Integers, Sequences, FiniteSets, TLC

VARIABLES
    memory,       \* CodeMemory: patterns, count, capacity (+ the allocation behind patterns)
    heap,         \* the CodePattern objects, by pointer
    workbench,    \* CodeWorkbench: code_request, current_code, suggested_code
    released,     \* how often each object was passed to free by the teardown code
    blockchain,   \* what commit_code_to_blockchain has printed, in order
    pc,           \* position of main / of the caller
    crashed,      \* the process was killed by a fault
    lastCall,     \* the most recent call made by the caller, with its argument
    cap0,         \* history: the capacity the store was set up with
    added,        \* history: the patterns passed to the Adds that returned
    commits,      \* history: the texts passed to commit_code_change
    refineBase,   \* history: suggested_code before the current run of Refines
    refineRun,    \* history: how many Refines were called in a row
    memAtStart,   \* history: <<memory, heap>> when the session started
    steps,        \* history: the session steps executed, in order
    procs,        \* the threads running add_pattern_to_memory: position, index read, pattern
    buffers,      \* the allocations behind the workbench: owner of each field, frees of each
    composed,     \* history: the bytes the last Refine wrote into refined[]
    request0,     \* history: the request passed to init_code_workbench
    failedStep,   \* history: the first session step in which an allocation failed
    heap0,        \* history: the patterns as they were created
    analyzed      \* history: the analyze_code_complexity calls per pattern

memVars  == <<memory, heap, cap0, added>>
wbVars   == <<workbench, commits, refineBase, refineRun>>
sessVars == <<blockchain, released, memAtStart, steps>>
extVars  == <<procs, buffers, composed, request0, failedStep, heap0, analyzed>>
vars     == <<memory, heap, workbench, released, blockchain, pc, crashed, lastCall,
              cap0, added, commits, refineBase, refineRun, memAtStart, steps,
              procs, buffers, composed, request0, failedStep, heap0, analyzed>>

----------------------------------------------------------------------------
(* Bounds of the model *)

MaxInitCap == 3
MaxAdds    == 7
MaxCommits == 3
MaxRefines == 3
MaxIngest  == 3
MaxSessions == 2

(* Program constants *)

CODE_COMPLEXITY_FACTOR == 1
SUGGESTION_SIZE        == 1024
REFINED_SIZE           == 1024
DEFAULT_CAPACITY       == 10

----------------------------------------------------------------------------
(* Small helpers *)

Min(a, b) == IF a < b THEN a ELSE b
Max(a, b) == IF a > b THEN a ELSE b

RECURSIVE Rep(_, _)
Rep(s, n) ==
    IF n = 0 THEN ""
    ELSE LET half == Rep(s, n \div 2)
         IN  IF n % 2 = 0 THEN half \o half ELSE half \o half \o s

NULL      == <<>>
Ptr(text) == <<text>>
Deref(p)  == p[1]

(* An indeterminate array slot: never written, or written outside the array. *)
Uninit == "uninit"

----------------------------------------------------------------------------
(* Code patterns *)

(* A double with an integer value: [big |-> FALSE, v |-> n] is n, and       *)
(* [big |-> TRUE, v |-> d] is 2^53 + d.  Below 2^53 every integer is a      *)
(* double, from 2^53 to 2^54 only the even ones are.                        *)
Double(n)     == [big |-> FALSE, v |-> n]
NearTwo53(d)  == [big |-> TRUE, v |-> d]
IsExactInt(x) == ~x.big \/ x.v < 0

create_code_pattern(snippet, language, complexity) ==
    [code_snippet |-> snippet, language |-> language, complexity |-> complexity]

PatternPtrs == {"p1", "p2"}

InitHeap ==
    [p \in PatternPtrs |->
        IF p = "p1" THEN create_code_pattern("int x;", "c", Double(1))
                    ELSE create_code_pattern("pass", "python", Double(2))]

----------------------------------------------------------------------------
(* CodeMemory.  memory.base and memory.slots describe the allocation behind *)
(* memory->patterns: "null" (no slots), or "heap" with slots elements.      *)

(* The store a caller sets up: as main does (patterns = NULL), or with the  *)
(* array allocated for capacity elements, as Add's documentation requires.  *)
NewMemory(capacity, allocated) ==
    [patterns |-> IF allocated THEN [i \in 1..capacity |-> Uninit] ELSE <<>>,
     count    |-> 0,
     capacity |-> capacity,
     base     |-> IF allocated THEN "heap" ELSE "null",
     slots    |-> IF allocated THEN capacity ELSE 0]

InitCapacities == (0..MaxInitCap) \cup {DEFAULT_CAPACITY}

(* realloc(patterns, n elements): the first Min(old, n) elements are kept,  *)
(* the rest is uninitialised; realloc(p, 0) returns NULL or an empty block. *)
ReallocResults(mem, n) ==
    LET kept == Min(mem.slots, n)
        arr  == [i \in 1..n |-> IF i <= kept THEN mem.patterns[i] ELSE Uninit]
    IN  IF n = 0
        THEN {[mem EXCEPT !.patterns = <<>>, !.base = "null", !.slots = 0],
              [mem EXCEPT !.patterns = <<>>, !.base = "heap", !.slots = 0]}
        ELSE {[mem EXCEPT !.patterns = arr, !.base = "heap", !.slots = n]}

(* A growth step of one element instead of a doubling. *)
GrownCapacityPlusOne(capacity) == capacity + 1

(* capacity *= 2 *)
GrownCapacity(capacity) == 2 * capacity

(* if (count == capacity) { capacity *= 2; patterns = realloc(...); } *)
GrowResults(mem) ==
    IF mem.count = mem.capacity
    THEN ReallocResults([mem EXCEPT !.capacity = GrownCapacity(mem.capacity)],
                        GrownCapacity(mem.capacity))
    ELSE {mem}

WriteAt(seq, i, v) ==
    [j \in 1..Max(Len(seq), i) |->
        IF j = i THEN v ELSE IF j <= Len(seq) THEN seq[j] ELSE Uninit]

(* patterns[count++] = pattern, inside the array *)
StoreResult(mem, pattern) ==
    [mem EXCEPT !.patterns = WriteAt(mem.patterns, mem.count + 1, pattern),
                !.count    = mem.count + 1]

(* patterns[count++] = pattern, outside the array but in mapped memory: the *)
(* slot belongs to another object, its content is the pattern or anything.  *)
StrayStoreResults(mem, pattern) ==
    {[mem EXCEPT !.patterns = WriteAt(mem.patterns, mem.count + 1, v),
                 !.count    = mem.count + 1] : v \in {pattern, Uninit}}

(* add_pattern_to_memory: the states it can return in. *)
AddResults(mem, pattern) ==
    UNION {IF g.count < g.slots THEN {StoreResult(g, pattern)}
           ELSE IF g.base = "null" THEN {}
           ELSE StrayStoreResults(g, pattern) : g \in GrowResults(mem)}

(* add_pattern_to_memory: the states it can fault in (the write is outside  *)
(* the array; through NULL it always faults).                               *)
AddFaults(mem) == {g \in GrowResults(mem) : g.count >= g.slots}

add_pattern_to_memory(pattern) ==
    /\ UNCHANGED extVars
    /\ ~crashed
    /\ \/ pc = "store" /\ memory.count < MaxAdds
       \/ pc = "main" /\ memory.count < MaxIngest
    /\ \/ /\ \E m \in AddResults(memory, pattern) : memory' = m
          /\ added' = Append(added, pattern)
          /\ UNCHANGED crashed
       \/ /\ \E m \in AddFaults(memory) : memory' = m
          /\ crashed' = TRUE
          /\ UNCHANGED added
    /\ lastCall' = [op |-> "add_pattern_to_memory", arg |-> pattern,
                    result |-> IF crashed' THEN "fault" ELSE "returned"]
    /\ UNCHANGED <<heap, cap0, pc, wbVars, sessVars>>

----------------------------------------------------------------------------
NoWorkbench == [code_request |-> NULL, current_code |-> NULL, suggested_code |-> NULL]

(* The objects the teardown code releases. *)
WorkbenchObjects == {"code_request", "current_code", "suggested_code", "workbench"}
Objects          == PatternPtrs \cup {"patterns", "memory"} \cup WorkbenchObjects

(* The workbench has been released. *)
wbFreed == released["workbench"] > 0

(* The threads that run add_pattern_to_memory side by side. *)
Procs     == {"t1", "t2"}
IdleProcs == [t \in Procs |-> [pc |-> "idle", idx |-> 0, pattern |-> "", outside |-> FALSE]]

(* The allocations behind the workbench, numbered in the order they are     *)
(* made: the allocation each pointer holds (0 for NULL), how often each     *)
(* allocation was passed to free, and whether a released one was read.      *)
NoBuffers ==
    [owner |-> [o \in WorkbenchObjects |-> 0], frees |-> <<>>, staleRead |-> FALSE]

InitRest ==
    /\ released = [o \in Objects |-> 0]
    /\ procs = IdleProcs
    /\ buffers = NoBuffers
    /\ composed = 0
    /\ failedStep = ""
    /\ heap0 = heap
    /\ analyzed = [p \in PatternPtrs |-> 0]
    /\ blockchain = <<>>
    /\ crashed = FALSE
    /\ lastCall = [op |-> "none", arg |-> "", result |-> "returned"]
    /\ commits = <<>>
    /\ refineBase = NULL
    /\ refineRun = 0
    /\ memAtStart = <<>>
    /\ steps = <<>>

InitStore ==
    /\ \E c \in InitCapacities, a \in BOOLEAN :
          /\ memory = NewMemory(c, a)
          /\ cap0 = c
    /\ heap = InitHeap
    /\ added = <<>>
    /\ pc = "store"
    /\ workbench = NoWorkbench
    /\ request0 = NULL
    /\ InitRest

NextStore == \E p \in PatternPtrs : add_pattern_to_memory(p)

SpecStore == InitStore /\ [][NextStore]_vars

----------------------------------------------------------------------------
(* CodeWorkbench *)

init_code_workbench(request) ==
    [code_request |-> Ptr(request), current_code |-> NULL, suggested_code |-> NULL]

(* An update that also overwrites the request with the new suggestion. *)
UpdatedRequest(wb, new_suggestion) ==
    [wb EXCEPT !.suggested_code = Ptr(new_suggestion),
               !.code_request   = Ptr(new_suggestion)]

(* A suggestion that is merged into the previous one instead of replacing it. *)
MergedSuggestion(wb, new_suggestion) ==
    [wb EXCEPT !.suggested_code =
        IF wb.suggested_code # NULL THEN Ptr(Deref(wb.suggested_code) \o new_suggestion)
                                    ELSE Ptr(new_suggestion)]

(* update_code_suggestion: free the old suggestion, strdup the new one. *)
UpdatedSuggestion(wb, new_suggestion) ==
    [wb EXCEPT !.suggested_code = Ptr(new_suggestion)]

(* A change that replaces the current code instead of extending it. *)
ReplacedChange(wb, change) == [wb EXCEPT !.current_code = Ptr(change)]

(* A change that is prepended to the current code instead of appended. *)
PrependedChange(wb, change) ==
    IF wb.current_code # NULL
    THEN [wb EXCEPT !.current_code = Ptr(change \o Deref(wb.current_code))]
    ELSE [wb EXCEPT !.current_code = Ptr(change)]

(* commit_code_change: strcpy + strcat into a new buffer, or strdup. *)
CommittedChange(wb, change) ==
    IF wb.current_code # NULL
    THEN [wb EXCEPT !.current_code = Ptr(Deref(wb.current_code) \o change)]
    ELSE [wb EXCEPT !.current_code = Ptr(change)]

(* generate_code_suggestion: the initialiser of suggestion[] and the strcat. *)
GeneratedSuggestion ==
    "Here's a suggestion based on your request:\n" \o "/* Your generated code here */"

(* refine_code_suggestion: the initialiser of refined[]. *)
Marker == "Refined code suggestion:\n"

(* strcat(refined, suggested_code) stays inside refined[]. *)
RefineFits(wb) == Len(Marker) + Len(Deref(wb.suggested_code)) + 1 <= REFINED_SIZE

RefinedText(wb) == Marker \o Deref(wb.suggested_code)

(* The texts a caller passes in.  LongText is the shortest suggestion that  *)
(* no longer fits behind the marker in refined[].                           *)
LongText    == Rep("x", REFINED_SIZE - Len(Marker))
Requests    == {"sort", "Create a function to sort an array"}
Suggestions == {"", "x", "yz", LongText}
Changes     == {"", "a", "bc"}

(* The caller's record of a call: it returned, or the process was killed in it. *)
Called(op, arg) ==
    lastCall' = [op |-> op, arg |-> arg,
                 result |-> IF crashed' THEN "fault" ELSE "returned"]

(* History of the Refines: a suggestion set by anything but Refine starts a *)
(* new run.                                                                 *)
RunReset == refineBase' = NULL /\ refineRun' = 0
RunStep ==
    /\ refineBase' = IF refineRun = 0 THEN workbench.suggested_code ELSE refineBase
    /\ refineRun' = refineRun + 1

update_code_suggestion(new_suggestion) ==
    /\ UNCHANGED extVars
    /\ ~crashed
    /\ pc = "open"
    /\ workbench' = UpdatedSuggestion(workbench, new_suggestion)
    /\ RunReset
    /\ UNCHANGED <<memVars, sessVars, commits, pc, crashed>>
    /\ Called("update_code_suggestion", new_suggestion)

commit_code_change(change) ==
    /\ UNCHANGED extVars
    /\ ~crashed
    /\ pc = "open"
    /\ Len(commits) < MaxCommits
    /\ workbench' = CommittedChange(workbench, change)
    /\ commits' = Append(commits, change)
    /\ UNCHANGED <<memVars, sessVars, refineBase, refineRun, pc, crashed>>
    /\ Called("commit_code_change", change)

(* A generator that has nothing to say when the store is empty, and that    *)
(* says how many patterns it found otherwise.                               *)
GeneratedFromStore(wb) ==
    UpdatedSuggestion(wb, IF memory.count = 0 THEN ""
                          ELSE Rep("*", memory.count) \o GeneratedSuggestion)

(* The workbench after generate_code_suggestion (suggestion[] is large      *)
(* enough for the two literals).                                            *)
Generated(wb) == UpdatedSuggestion(wb, GeneratedSuggestion)

generate_code_suggestion ==
    /\ UNCHANGED extVars
    /\ ~crashed
    /\ pc = "open"
    /\ Len(GeneratedSuggestion) + 1 <= SUGGESTION_SIZE
    /\ workbench' = Generated(workbench)
    /\ RunReset
    /\ UNCHANGED <<memVars, sessVars, commits, pc, crashed>>
    /\ Called("generate_code_suggestion", "")

process_code_request ==
    /\ UNCHANGED extVars
    /\ ~crashed
    /\ pc = "open"
    /\ workbench' = Generated(workbench)
    /\ RunReset
    /\ UNCHANGED <<memVars, sessVars, commits, pc, crashed>>
    /\ Called("process_code_request", "")

(* A Refine that leaves the suggestion as it found it. *)
RefineSkipped(wb) == {<<wb, FALSE>>}

(* refine_code_suggestion, as <<workbench, crashed>> outcomes.  A NULL      *)
(* suggestion faults in strcat.  A suggestion that does not fit overruns    *)
(* refined[]: the process is killed in strcat (a checked strcat), or the    *)
(* overrun goes through, the suggestion is updated and the process is       *)
(* killed on return or goes on with a damaged stack.                        *)
RefineOutcomes(wb) ==
    IF wb.suggested_code = NULL THEN {<<wb, TRUE>>}
    ELSE IF RefineFits(wb) THEN {<<UpdatedSuggestion(wb, RefinedText(wb)), FALSE>>}
    ELSE {<<wb, TRUE>>,
          <<UpdatedSuggestion(wb, RefinedText(wb)), TRUE>>,
          <<UpdatedSuggestion(wb, RefinedText(wb)), FALSE>>}

(* The bytes strcat makes refined[] hold: the marker, the suggestion and    *)
(* the terminator (nothing is composed from a NULL suggestion).             *)
Composed(wb) ==
    IF wb.suggested_code = NULL THEN composed
    ELSE Len(Marker) + Len(Deref(wb.suggested_code)) + 1

(* refine_code_suggestion, called at most limit times in a row. *)
RefineCall(limit) ==
    /\ composed' = Composed(workbench)
    /\ UNCHANGED <<procs, buffers, request0, failedStep, heap0, analyzed>>
    /\ ~crashed
    /\ pc = "open"
    /\ refineRun < limit
    /\ \E o \in RefineOutcomes(workbench) :
          /\ workbench' = o[1]
          /\ crashed' = o[2]
    /\ RunStep
    /\ UNCHANGED <<memVars, sessVars, commits, pc>>
    /\ Called("refine_code_suggestion", "")

refine_code_suggestion == RefineCall(MaxRefines)

InitWorkbench ==
    /\ memory = NewMemory(DEFAULT_CAPACITY, FALSE)
    /\ cap0 = DEFAULT_CAPACITY
    /\ heap = InitHeap
    /\ added = <<>>
    /\ pc = "open"
    /\ InitRest
    /\ \E r \in Requests :
          /\ workbench = init_code_workbench(r)
          /\ request0 = Ptr(r)

NextWorkbench ==
    \/ \E t \in Suggestions : update_code_suggestion(t)
    \/ \E t \in Changes : commit_code_change(t)
    \/ generate_code_suggestion
    \/ process_code_request
    \/ refine_code_suggestion

SpecWorkbench == InitWorkbench /\ [][NextWorkbench]_vars

----------------------------------------------------------------------------
(* Properties of the store *)

RECURSIVE ExpectedCapacity(_, _)
ExpectedCapacity(c, n) == IF n <= c THEN c ELSE ExpectedCapacity(2 * c, n)

(* C1 - Growth law: a store set up with capacity C >= 1 keeps capacity C    *)
(* through its first C Adds, has capacity 2C after Add number C+1, and in   *)
(* general its capacity is C doubled just as often as the count has         *)
(* outgrown it: a doubling happens only on an Add that finds count equal to *)
(* capacity, never earlier.                                                 *)
C1_GrowthLaw ==
    cap0 >= 1 =>
        /\ Len(added) <= cap0 => memory.capacity = cap0
        /\ Len(added) = cap0 + 1 => memory.capacity = 2 * cap0
        /\ memory.capacity = ExpectedCapacity(cap0, Len(added))

C1_Witness ==
    /\ cap0 >= 2
    /\ ~crashed
    /\ Len(added) = cap0 + 1
    /\ memory.count = cap0 + 1
    /\ memory.capacity = 2 * cap0

(* C2 - Store invariant: capacity >= count in every reachable state of a    *)
(* store, whatever capacity (0 included) it was set up with.                *)
C2_CapacityGeCount == memory.capacity >= memory.count

(* C3 - Insertion order preserved: after Add(p1), ..., Add(pn) the count is *)
(* n and the element at index i (0-based) is p(i+1); no element is moved,   *)
(* dropped or overwritten by a later Add.                                   *)
C3_InsertionOrder ==
    /\ memory.count = Len(added)
    /\ \A i \in 1..Len(added) :
          /\ i <= Len(memory.patterns)
          /\ memory.patterns[i] = added[i]

----------------------------------------------------------------------------
(* Properties of the workbench *)

RECURSIVE Concat(_)
Concat(texts) == IF texts = <<>> THEN "" ELSE Head(texts) \o Concat(Tail(texts))

(* C4 - CommitChange concatenation: on a freshly initialised workbench,     *)
(* after CommitChange(t1), ..., CommitChange(tn), n >= 1, current_code is   *)
(* t1 t2 ... tn in call order with no separator; before the first call it   *)
(* is absent.                                                               *)
C4_CommitConcatenation ==
    workbench.current_code = IF commits = <<>> THEN NULL ELSE Ptr(Concat(commits))

C4_Witness ==
    /\ Len(commits) = 3
    /\ commits[1] = "a" /\ commits[2] = "bc" /\ commits[3] = "a"
    /\ workbench.current_code = Ptr("abca")

(* C5 - UpdateSuggestion replace semantics: after an UpdateSuggestion call, *)
(* whatever calls came before it, suggested_code is exactly the argument of *)
(* that call, and no earlier suggestion has gone into current_code.         *)
C5_UpdateReplaces ==
    lastCall.op = "update_code_suggestion" =>
        /\ workbench.suggested_code = Ptr(lastCall.arg)
        /\ workbench.current_code = IF commits = <<>> THEN NULL ELSE Ptr(Concat(commits))

C5_Witness ==
    /\ lastCall.op = "update_code_suggestion"
    /\ lastCall.arg = "yz"
    /\ lastCall.result = "returned"
    /\ workbench.suggested_code = Ptr("yz")
    /\ workbench.current_code = Ptr("a")

(* C6 - Refinement non-idempotence: n Refine calls on a workbench whose     *)
(* suggested_code is S leave suggested_code = marker^n S, for every S and   *)
(* every n (so no Refine leaves the suggestion as it found it).             *)
C6_RefineNests ==
    (refineRun >= 1 /\ refineBase # NULL) =>
        workbench.suggested_code = Ptr(Rep(Marker, refineRun) \o Deref(refineBase))

----------------------------------------------------------------------------
(* The coding session: main sets up the store and the workbench, and        *)
(* orchestrate_coding_session runs its steps in program order.  pc is the   *)
(* position in main and in orchestrate_coding_session.                      *)

(* generate_code_suggestion and refine_code_suggestion receive the store    *)
(* and never write through it: the store they leave.                        *)
MemoryAfterSuggestionCleared(mem) == [mem EXCEPT !.count = 0]

MemoryAfterSuggestion(mem) == mem

(* A commit that is sent twice. *)
commit_twice(code, description) ==
    blockchain \o << [description |-> description, code |-> code],
                     [description |-> description, code |-> code] >>

(* commit_code_to_blockchain: one line printed. *)
commit_code_to_blockchain(code, description) ==
    Append(blockchain, [description |-> description, code |-> code])

(* free(p): nothing happens for NULL. *)
Freed(rel, object, pointer) ==
    IF pointer = NULL THEN rel ELSE [rel EXCEPT ![object] = @ + 1]

(* The four frees that end orchestrate_coding_session. *)
ReleasedWorkbench(rel, wb) ==
    [Freed(Freed(Freed(rel, "code_request", wb.code_request),
                 "current_code", wb.current_code),
           "suggested_code", wb.suggested_code)
        EXCEPT !["workbench"] = @ + 1]

Step(name) == steps' = Append(steps, name)

(* The allocations behind the workbench.  buffers.frees[i] counts the calls *)
(* of free on allocation i, buffers.owner[f] is the allocation field f      *)
(* points to (0: NULL), buffers.staleRead tells that a released allocation  *)
(* was read.                                                                *)

(* malloc / strdup, the result stored in field f *)
Alloc(b, f) ==
    [b EXCEPT !.frees = Append(@, 0), !.owner[f] = Len(b.frees) + 1]

(* free(f): nothing happens for NULL *)
Free(b, f) ==
    IF b.owner[f] = 0 THEN b ELSE [b EXCEPT !.frees[b.owner[f]] = @ + 1]

(* printf("%s", f), strcat(..., f) *)
Read(b, f) ==
    IF b.owner[f] # 0 /\ b.frees[b.owner[f]] > 0
    THEN [b EXCEPT !.staleRead = TRUE] ELSE b

(* An update that drops the old suggestion without a free. *)
SuggestionBuffersLeaking(b) == Alloc(b, "suggested_code")

(* update_code_suggestion: free the old suggestion if any, strdup the new. *)
SuggestionBuffers(b) == Alloc(Free(b, "suggested_code"), "suggested_code")

(* The four frees that end orchestrate_coding_session, in their order. *)
ReleasedBuffers(b) ==
    Free(Free(Free(Free(b, "code_request"), "current_code"), "suggested_code"),
         "workbench")

(* printf("%s", p): passing NULL is undefined; the C library prints         *)
(* "(null)" and goes on, or the process is killed in printf.                *)
PrintfFaults(p) == IF p = NULL THEN {TRUE, FALSE} ELSE {FALSE}
Printed(p)      == IF p = NULL THEN "(null)" ELSE Deref(p)

(* The first step of the session in which an allocation failed. *)
Failed(name) == failedStep' = IF failedStep = "" THEN name ELSE failedStep

(* update_code_suggestion when strdup returns NULL: the old suggestion is   *)
(* freed and the field is left NULL.                                        *)
FailedSuggestion(wb)  == [wb EXCEPT !.suggested_code = NULL]
FailedSuggestionBuffers(b) ==
    [Free(b, "suggested_code") EXCEPT !.owner["suggested_code"] = 0]

(* main: workbench = init_code_workbench(request) *)
main_init_code_workbench(request) ==
    /\ request0' = Ptr(request)
    /\ buffers' = Alloc(Alloc(buffers, "workbench"), "code_request")
    /\ UNCHANGED <<procs, composed, failedStep, heap0, analyzed>>
    /\ ~crashed
    /\ pc = "main"
    /\ workbench' = init_code_workbench(request)
    /\ memAtStart' = <<memory, heap>>
    /\ Step("Init")
    /\ pc' = "created"
    /\ UNCHANGED <<memVars, blockchain, released, commits, refineBase, refineRun,
                   crashed, lastCall>>

(* orchestrate_coding_session: process_code_request(workbench, memory) *)
orchestrate_process_code_request ==
    /\ UNCHANGED <<procs, composed, request0, failedStep, heap0, analyzed>>
    /\ ~crashed
    /\ pc = "created"
    /\ \E killed \in PrintfFaults(workbench.code_request) :
          /\ crashed' = killed
          /\ workbench' = IF killed THEN workbench ELSE Generated(workbench)
          /\ buffers' =
                IF killed THEN Read(buffers, "code_request")
                ELSE Read(SuggestionBuffers(Read(buffers, "code_request")),
                          "suggested_code")
          /\ IF killed THEN UNCHANGED steps ELSE Step("Generate")
    /\ memory' = MemoryAfterSuggestion(memory)
    /\ pc' = "generated"
    /\ UNCHANGED <<heap, cap0, added, blockchain, released, memAtStart, commits,
                   refineBase, refineRun, lastCall>>

(* orchestrate_coding_session: refine_code_suggestion(workbench, memory) *)
orchestrate_refine_code_suggestion ==
    /\ composed' = Composed(workbench)
    /\ UNCHANGED <<procs, request0, failedStep, heap0, analyzed>>
    /\ ~crashed
    /\ pc = "generated"
    /\ \E o \in RefineOutcomes(workbench) :
          /\ workbench' = o[1]
          /\ crashed' = o[2]
          /\ buffers' =
                IF o[1] = workbench THEN Read(buffers, "suggested_code")
                ELSE IF o[2] THEN SuggestionBuffers(Read(buffers, "suggested_code"))
                ELSE Read(SuggestionBuffers(Read(buffers, "suggested_code")),
                          "suggested_code")
    /\ memory' = MemoryAfterSuggestion(memory)
    /\ Step("Refine")
    /\ pc' = "refined"
    /\ UNCHANGED <<heap, cap0, added, blockchain, released, memAtStart, commits,
                   refineBase, refineRun, lastCall>>

(* orchestrate_coding_session: commit_code_to_blockchain(suggested_code, ...) *)
orchestrate_commit_code_to_blockchain ==
    /\ buffers' = Read(buffers, "suggested_code")
    /\ UNCHANGED <<procs, composed, request0, failedStep, heap0, analyzed>>
    /\ ~crashed
    /\ pc = "refined"
    /\ \E killed \in PrintfFaults(workbench.suggested_code) :
          /\ crashed' = killed
          /\ blockchain' =
                IF killed THEN blockchain
                ELSE commit_code_to_blockchain(Printed(workbench.suggested_code),
                                               "Final Suggestion")
    /\ Step("Commit")
    /\ pc' = "committed"
    /\ UNCHANGED <<memVars, wbVars, released, memAtStart, lastCall>>

(* orchestrate_coding_session: the frees of the three texts and the struct. *)
(* The released struct keeps its last content in the model: what a stale    *)
(* pointer to it still finds when the memory has not been reused.           *)
orchestrate_free ==
    /\ buffers' = ReleasedBuffers(buffers)
    /\ UNCHANGED <<procs, composed, request0, failedStep, heap0, analyzed>>
    /\ ~crashed
    /\ pc = "committed"
    /\ released' = ReleasedWorkbench(released, workbench)
    /\ Step("Close")
    /\ pc' = "closed"
    /\ UNCHANGED <<memVars, wbVars, blockchain, memAtStart, crashed, lastCall>>

(* free_code_memory: free_code_pattern on the first count slots, then the   *)
(* array, then the struct.                                                  *)
ReleasedMemory(rel, mem) ==
    [o \in Objects |->
        rel[o] + Cardinality({i \in 1..mem.count : mem.patterns[i] = o})
               + (IF o = "memory" \/ (o = "patterns" /\ mem.base = "heap") THEN 1 ELSE 0)]

(* A slot that holds no pattern, or a pattern that is held twice, makes     *)
(* free_code_pattern release what is not (or no longer) an allocation.      *)
FreeMemoryFaulty(mem) ==
    \/ \E i \in 1..mem.count : mem.patterns[i] = Uninit
    \/ \E i, j \in 1..mem.count : i # j /\ mem.patterns[i] = mem.patterns[j]

(* main: free_code_memory(memory) *)
main_free_code_memory ==
    /\ UNCHANGED extVars
    /\ ~crashed
    /\ pc = "closed"
    /\ released' = ReleasedMemory(released, memory)
    /\ crashed' \in (IF FreeMemoryFaulty(memory) THEN {TRUE, FALSE} ELSE {FALSE})
    /\ pc' = "done"
    /\ UNCHANGED <<memVars, wbVars, blockchain, memAtStart, steps, lastCall>>

Init ==
    /\ \E c \in InitCapacities, a \in BOOLEAN :
          /\ memory = NewMemory(c, a)
          /\ cap0 = c
    /\ heap = InitHeap
    /\ added = <<>>
    /\ pc = "main"
    /\ workbench = NoWorkbench
    /\ request0 = NULL
    /\ InitRest

Session ==
    \/ orchestrate_process_code_request
    \/ orchestrate_refine_code_suggestion
    \/ orchestrate_commit_code_to_blockchain
    \/ orchestrate_free

Next ==
    \/ \E p \in PatternPtrs : add_pattern_to_memory(p)
    \/ \E r \in Requests : main_init_code_workbench(r)
    \/ Session
    \/ main_free_code_memory

Spec == Init /\ [][Next]_vars

----------------------------------------------------------------------------
(* Properties of the session *)

RefinedSuggestion == Marker \o GeneratedSuggestion

(* C7 - In every run of the session Commit is invoked exactly once, with    *)
(* the description "Final Suggestion" and the refined suggestion (the       *)
(* marker followed by the generated suggestion, which is what               *)
(* suggested_code holds after the Refine step) as its content.              *)
C7_CommitOnceRefined ==
    /\ pc \in {"main", "created", "generated", "refined"} => blockchain = <<>>
    /\ pc \in {"committed", "closed", "done"} =>
          /\ Len(blockchain) = 1
          /\ blockchain[1].description = "Final Suggestion"
          /\ blockchain[1].code = RefinedSuggestion
          /\ blockchain[1].code = Deref(workbench.suggested_code)

C7_Witness ==
    /\ pc = "done"
    /\ ~crashed
    /\ memory.count = 2
    /\ blockchain = << [description |-> "Final Suggestion", code |-> RefinedSuggestion] >>

(* The state of the workbench, read off its data. *)
WorkbenchState ==
    IF wbFreed THEN "Closed"
    ELSE IF blockchain # <<>> THEN "Committed"
    ELSE IF workbench.suggested_code = Ptr(RefinedSuggestion) THEN "Refined"
    ELSE IF workbench.suggested_code = Ptr(GeneratedSuggestion) THEN "SuggestionGenerated"
    ELSE IF workbench.suggested_code = NULL /\ workbench.code_request # NULL THEN "Created"
    ELSE "None"

StateOrder == <<"Created", "SuggestionGenerated", "Refined", "Committed", "Closed">>
StepOrder  == <<"Init", "Generate", "Refine", "Commit", "Close">>

(* C8 - Session ordering: a session passes through Created,                 *)
(* SuggestionGenerated, Refined, Committed, Closed in that order, each once:*)
(* the steps executed are always the first k of Init, Generate, Refine,     *)
(* Commit, Close, the workbench is then in the k-th state, and a finished   *)
(* run has executed all five.                                               *)
C8_SessionOrder ==
    /\ Len(steps) <= Len(StepOrder)
    /\ steps = SubSeq(StepOrder, 1, Len(steps))
    /\ WorkbenchState = IF steps = <<>> THEN "None" ELSE StateOrder[Len(steps)]
    /\ pc = "done" => steps = StepOrder

C8_Witness ==
    /\ pc = "done"
    /\ ~crashed
    /\ steps = StepOrder
    /\ WorkbenchState = "Closed"

(* C9 - The session does not mutate the store: after each step of the       *)
(* session (Init, Generate, Refine, Commit, Close) the store's count,       *)
(* capacity and patterns and every pattern's fields are what they were when *)
(* the session started.                                                     *)
C9_StoreUntouched ==
    pc \in {"created", "generated", "refined", "committed", "closed"} =>
        memAtStart = <<memory, heap>>

C9_Witness ==
    /\ pc = "closed"
    /\ memory.count = 3
    /\ memory.capacity = 4
    /\ memAtStart = <<memory, heap>>

----------------------------------------------------------------------------
(* A caller that goes on using the workbench after the session has released *)
(* it.  The functions hold no check of the workbench's state: each runs its *)
(* code on the released struct.  The access faults, or it goes through and  *)
(* the function works on what the released memory still holds.              *)

StaleOutcomes(outcomes) == {<<workbench, TRUE>>} \cup outcomes

StaleCall ==
    /\ ~crashed
    /\ pc \in {"closed", "done"}
    /\ wbFreed

stale_update_code_suggestion(new_suggestion) ==
    /\ UNCHANGED extVars
    /\ StaleCall
    /\ \E o \in StaleOutcomes({<<UpdatedSuggestion(workbench, new_suggestion), FALSE>>}) :
          /\ workbench' = o[1]
          /\ crashed' = o[2]
    /\ RunReset
    /\ UNCHANGED <<memVars, sessVars, commits, pc>>
    /\ Called("update_code_suggestion", new_suggestion)

stale_commit_code_change(change) ==
    /\ UNCHANGED extVars
    /\ StaleCall
    /\ Len(commits) < MaxCommits
    /\ \E o \in StaleOutcomes({<<CommittedChange(workbench, change), FALSE>>}) :
          /\ workbench' = o[1]
          /\ crashed' = o[2]
    /\ commits' = Append(commits, change)
    /\ UNCHANGED <<memVars, sessVars, refineBase, refineRun, pc>>
    /\ Called("commit_code_change", change)

stale_generate_code_suggestion ==
    /\ UNCHANGED extVars
    /\ StaleCall
    /\ \E o \in StaleOutcomes({<<Generated(workbench), FALSE>>}) :
          /\ workbench' = o[1]
          /\ crashed' = o[2]
    /\ RunReset
    /\ UNCHANGED <<memVars, sessVars, commits, pc>>
    /\ Called("generate_code_suggestion", "")

stale_refine_code_suggestion ==
    /\ UNCHANGED extVars
    /\ StaleCall
    /\ refineRun < MaxRefines
    /\ \E o \in StaleOutcomes(RefineOutcomes(workbench)) :
          /\ workbench' = o[1]
          /\ crashed' = o[2]
    /\ RunStep
    /\ UNCHANGED <<memVars, sessVars, commits, pc>>
    /\ Called("refine_code_suggestion", "")

(* A second orchestrate_coding_session on the released workbench: it        *)
(* generates, refines, commits and frees everything once more.              *)
stale_orchestrate_coding_session ==
    /\ UNCHANGED extVars
    /\ StaleCall
    /\ Len(blockchain) < MaxSessions
    /\ \/ /\ crashed' = TRUE
          /\ UNCHANGED <<workbench, blockchain, released>>
       \/ /\ workbench' = UpdatedSuggestion(workbench, RefinedText(Generated(workbench)))
          /\ blockchain' = commit_code_to_blockchain(RefinedText(Generated(workbench)),
                                                     "Final Suggestion")
          /\ released' = ReleasedWorkbench(released, workbench')
          /\ crashed' \in {TRUE, FALSE}
    /\ RunReset
    /\ UNCHANGED <<memVars, memAtStart, steps, commits, pc>>
    /\ Called("orchestrate_coding_session", "")

(* main as the source has it: the store of main, no pattern added. *)
InitMisuse ==
    /\ memory = NewMemory(DEFAULT_CAPACITY, FALSE)
    /\ cap0 = DEFAULT_CAPACITY
    /\ heap = InitHeap
    /\ added = <<>>
    /\ pc = "main"
    /\ workbench = NoWorkbench
    /\ request0 = NULL
    /\ InitRest

NextMisuse ==
    \/ \E r \in Requests : main_init_code_workbench(r)
    \/ Session
    \/ main_free_code_memory
    \/ \E t \in Suggestions : stale_update_code_suggestion(t)
    \/ \E t \in Changes : stale_commit_code_change(t)
    \/ stale_generate_code_suggestion
    \/ stale_refine_code_suggestion
    \/ stale_orchestrate_coding_session

SpecMisuse == InitMisuse /\ [][NextMisuse]_vars

(* C10 - Use after close is rejected: once the workbench is released, every *)
(* workbench operation called on it fails with StateMisuse and leaves the   *)
(* workbench, the committed record and the released objects as they were;   *)
(* the released request, current_code and suggested_code are not accessed,  *)
(* so no call faults.                                                       *)
C10_UseAfterCloseRejected ==
    [][(wbFreed /\ lastCall' # lastCall) =>
          /\ lastCall'.result = "StateMisuse"
          /\ workbench' = workbench
          /\ blockchain' = blockchain
          /\ released' = released
          /\ crashed' = crashed]_vars

----------------------------------------------------------------------------
(* Tearing the store down: free_code_memory called on a store that holds    *)
(* the patterns added so far.                                               *)

free_code_memory ==
    /\ UNCHANGED extVars
    /\ ~crashed
    /\ pc = "store"
    /\ released' = ReleasedMemory(released, memory)
    /\ crashed' \in (IF FreeMemoryFaulty(memory) THEN {TRUE, FALSE} ELSE {FALSE})
    /\ pc' = "destroyed"
    /\ UNCHANGED <<memVars, wbVars, blockchain, memAtStart, steps>>
    /\ Called("free_code_memory", "")

(* Stores whose array is allocated, with room for at least one pattern. *)
InitDestroy ==
    /\ \E c \in 1..MaxInitCap :
          /\ memory = NewMemory(c, TRUE)
          /\ cap0 = c
    /\ heap = InitHeap
    /\ added = <<>>
    /\ pc = "store"
    /\ workbench = NoWorkbench
    /\ request0 = NULL
    /\ InitRest

NextDestroy ==
    \/ \E p \in PatternPtrs : add_pattern_to_memory(p)
    \/ free_code_memory

SpecDestroy == InitDestroy /\ [][NextDestroy]_vars

Held(p) == \E i \in 1..Len(added) : added[i] = p

(* C11 - Destroy releases every pattern the store holds exactly once and    *)
(* then the sequence (and the store), also when the same pattern was added  *)
(* more than once: no pattern is released twice, none is left unreleased,   *)
(* and the teardown does not fault.                                         *)
C11_DestroyReleasesOnce ==
    pc = "destroyed" =>
        /\ \A p \in PatternPtrs : released[p] = IF Held(p) THEN 1 ELSE 0
        /\ released["patterns"] = 1
        /\ released["memory"] = 1
        /\ ~crashed

----------------------------------------------------------------------------
(* C18 - Every add_pattern_to_memory writes the pattern inside the array    *)
(* allocated for memory->patterns: no call faults, and the patterns counted *)
(* never exceed the elements allocated, also for the store main sets up     *)
(* (patterns = NULL, capacity 10) and for a store of capacity 0.            *)
C18_AddInBounds ==
    /\ lastCall.op = "add_pattern_to_memory" => lastCall.result = "returned"
    /\ memory.count <= memory.slots

----------------------------------------------------------------------------
(* Properties of the workbench's fields *)

(* An open workbench used in any order, and the session main runs. *)
InitRequest == InitWorkbench \/ Init
NextRequest == NextWorkbench \/ Next
SpecRequest == InitRequest /\ [][NextRequest]_vars

(* p and q are char* values: NULL (no text yet) is a prefix of everything. *)
IsPrefix(p, q) ==
    \/ p = NULL
    \/ /\ q # NULL
       /\ Len(Deref(p)) <= Len(Deref(q))
       /\ SubSeq(Deref(q), 1, Len(Deref(p))) = Deref(p)

(* C15 - current_code is append-only: in every step of an open workbench    *)
(* the old current_code is a prefix of the new one (so every earlier value  *)
(* is a prefix of every later one), a step that is not commit_code_change   *)
(* leaves current_code as it is, and commit_code_change leaves              *)
(* suggested_code as it is.                                                 *)
C15_AppendOnly ==
    [][/\ IsPrefix(workbench.current_code, workbench'.current_code)
       /\ lastCall'.op # "commit_code_change" =>
              workbench'.current_code = workbench.current_code
       /\ lastCall'.op = "commit_code_change" =>
              workbench'.suggested_code = workbench.suggested_code]_vars

C15_Witness ==
    /\ pc = "open"
    /\ Len(commits) = 2
    /\ workbench.current_code = Ptr("abc")
    /\ lastCall.op = "refine_code_suggestion"
    /\ lastCall.result = "returned"
    /\ refineRun = 2

(* C16 - The request is immutable: from init_code_workbench(request) until  *)
(* the workbench is released, after any sequence of update, commit-change,  *)
(* generate, refine and blockchain commit, code_request is the text given   *)
(* to init_code_workbench.                                                  *)
C16_RequestImmutable ==
    pc \in {"open", "created", "generated", "refined", "committed"} =>
        /\ request0 # NULL
        /\ workbench.code_request = request0

C16_Witness ==
    \/ /\ pc = "open"
       /\ lastCall.op = "update_code_suggestion"
       /\ Len(commits) = 1
       /\ workbench.suggested_code = Ptr("yz")
       /\ workbench.code_request = Ptr("sort")
    \/ /\ pc = "committed"
       /\ Len(blockchain) = 1
       /\ workbench.code_request = Ptr("sort")

----------------------------------------------------------------------------
(* C12 - Generate always succeeds: whatever the request and whatever the    *)
(* store holds (nothing included), after process_code_request the           *)
(* workbench's suggested_code is present and non-empty, and it is the same  *)
(* text for every store: the template of generate_code_suggestion.          *)
C12_GenerateSucceeds ==
    pc = "generated" =>
        /\ ~crashed
        /\ workbench.suggested_code # NULL
        /\ Len(Deref(workbench.suggested_code)) > 0
        /\ workbench.suggested_code = Ptr(GeneratedSuggestion)

C12_Witness ==
    /\ pc = "generated"
    /\ memory.count = 2
    /\ added = <<"p2", "p1">>
    /\ request0 = Ptr("sort")
    /\ Len(Deref(workbench.suggested_code)) = 73

----------------------------------------------------------------------------
(* Refine after Refine on the generated suggestion. *)

MaxChain == 45

refine_chain == RefineCall(MaxChain)

NextRefineChain ==
    \/ generate_code_suggestion
    \/ refine_chain

SpecRefineChain == InitWorkbench /\ [][NextRefineChain]_vars

(* C19 - refine_code_suggestion never overruns refined[1024]: for every     *)
(* suggestion that generate and refine calls can produce, in particular     *)
(* after any number of successive refines of the generated suggestion, the  *)
(* marker, the suggestion and the terminator fit in the buffer when the     *)
(* result is composed.                                                      *)
C19_RefineFitsBuffer == composed <= REFINED_SIZE

----------------------------------------------------------------------------
(* Allocations of a session *)

Allocations == 1..Len(buffers.frees)
Pointed(i)  == \E f \in WorkbenchObjects : buffers.owner[f] = i

(* C20 - No leak and no double release in a session: no allocation made for *)
(* the workbench is released twice, none is read after its release, while   *)
(* the session runs exactly the allocations no field points to any longer   *)
(* (the replaced suggestions) have been released, and once the session has  *)
(* returned every allocation (the request, every suggestion, the workbench) *)
(* has been released exactly once.                                          *)
C20_ReleasedOnce ==
    /\ \A i \in Allocations : buffers.frees[i] <= 1
    /\ ~buffers.staleRead
    /\ pc \in {"created", "generated", "refined", "committed"} =>
          \A i \in Allocations : (buffers.frees[i] = 0) <=> Pointed(i)
    /\ pc \in {"closed", "done"} =>
          \A i \in Allocations : buffers.frees[i] = 1

C20_Witness ==
    /\ pc = "closed"
    /\ Len(buffers.frees) = 4
    /\ \A i \in 1..4 : buffers.frees[i] = 1
    /\ buffers.owner["current_code"] = 0
    /\ released["workbench"] = 1

----------------------------------------------------------------------------
(* The session when malloc or strdup returns NULL.  No function of the      *)
(* program looks at an allocation's result.                                 *)

(* init_code_workbench: malloc returns NULL and the first assignment writes *)
(* through it, or strdup returns NULL and code_request is left NULL.        *)
main_init_alloc_fails(request, gotStruct) ==
    /\ ~crashed
    /\ pc = "main"
    /\ request0' = Ptr(request)
    /\ Failed("Init")
    /\ IF gotStruct
       THEN /\ workbench' = [init_code_workbench(request) EXCEPT !.code_request = NULL]
            /\ buffers' = Alloc(buffers, "workbench")
            /\ UNCHANGED crashed
       ELSE /\ crashed' = TRUE
            /\ UNCHANGED <<workbench, buffers>>
    /\ memAtStart' = <<memory, heap>>
    /\ Step("Init")
    /\ pc' = "created"
    /\ UNCHANGED <<procs, composed, heap0, analyzed>>
    /\ UNCHANGED <<memVars, blockchain, released, commits, refineBase, refineRun,
                   lastCall>>

(* process_code_request: the strdup of update_code_suggestion returns NULL; *)
(* orchestrate_coding_session then prints the NULL suggestion.              *)
orchestrate_process_strdup_fails ==
    /\ ~crashed
    /\ pc = "created"
    /\ FALSE \in PrintfFaults(workbench.code_request)
    /\ workbench' = FailedSuggestion(workbench)
    /\ buffers' = FailedSuggestionBuffers(Read(buffers, "code_request"))
    /\ crashed' \in PrintfFaults(workbench'.suggested_code)
    /\ Failed("Generate")
    /\ memory' = MemoryAfterSuggestion(memory)
    /\ Step("Generate")
    /\ pc' = "generated"
    /\ UNCHANGED <<procs, composed, request0, heap0, analyzed>>
    /\ UNCHANGED <<heap, cap0, added, blockchain, released, memAtStart, commits,
                   refineBase, refineRun, lastCall>>

(* refine_code_suggestion: refined[] is composed, then the strdup of        *)
(* update_code_suggestion returns NULL; the NULL suggestion is printed.     *)
orchestrate_refine_strdup_fails ==
    /\ ~crashed
    /\ pc = "generated"
    /\ workbench.suggested_code # NULL
    /\ RefineFits(workbench)
    /\ composed' = Composed(workbench)
    /\ workbench' = FailedSuggestion(workbench)
    /\ buffers' = FailedSuggestionBuffers(Read(buffers, "suggested_code"))
    /\ crashed' \in PrintfFaults(workbench'.suggested_code)
    /\ Failed("Refine")
    /\ memory' = MemoryAfterSuggestion(memory)
    /\ Step("Refine")
    /\ pc' = "refined"
    /\ UNCHANGED <<procs, request0, heap0, analyzed>>
    /\ UNCHANGED <<heap, cap0, added, blockchain, released, memAtStart, commits,
                   refineBase, refineRun, lastCall>>

NextAllocFail ==
    \/ Next
    \/ \E r \in Requests, gotStruct \in BOOLEAN : main_init_alloc_fails(r, gotStruct)
    \/ orchestrate_process_strdup_fails
    \/ orchestrate_refine_strdup_fails

SpecAllocFail == Init /\ [][NextAllocFail]_vars

(* C14 - Abort on failure: once a step of the session has failed (an        *)
(* allocation of init_code_workbench, or of the update_code_suggestion that *)
(* generate or refine performs), no later step of the session is run: the   *)
(* failed step is the last one started, and the blockchain commit is not    *)
(* invoked with a NULL suggestion.                                          *)
C14_AbortOnFailure ==
    failedStep # "" =>
        /\ steps[Len(steps)] = failedStep
        /\ ~(pc = "committed" /\ workbench.suggested_code = NULL)

----------------------------------------------------------------------------
(* Two threads in add_pattern_to_memory on the same store, one call each,   *)
(* their steps interleaved: the test of count == capacity, the doubling     *)
(* with realloc, the write of patterns[count], the store of count + 1.      *)
(* procs[t].idx is the value of count thread t read for count++.            *)

(* if (memory->count == memory->capacity) *)
add_test(t, pattern) ==
    /\ ~crashed
    /\ pc = "race"
    /\ procs[t].pc = "idle"
    /\ procs' = [procs EXCEPT ![t].pattern = pattern,
                              ![t].pc = IF memory.count = memory.capacity
                                        THEN "grow" ELSE "write"]
    /\ UNCHANGED <<buffers, composed, request0, failedStep, heap0, analyzed>>
    /\ UNCHANGED <<memVars, wbVars, sessVars, pc, crashed, lastCall>>

(* capacity *= 2; patterns = realloc(patterns, capacity elements) *)
add_grow(t) ==
    /\ ~crashed
    /\ pc = "race"
    /\ procs[t].pc = "grow"
    /\ memory' \in ReallocResults(
                      [memory EXCEPT !.capacity = GrownCapacity(memory.capacity)],
                      GrownCapacity(memory.capacity))
    /\ procs' = [procs EXCEPT ![t].pc = "write"]
    /\ UNCHANGED <<buffers, composed, request0, failedStep, heap0, analyzed>>
    /\ UNCHANGED <<heap, cap0, added, wbVars, sessVars, pc, crashed, lastCall>>

(* patterns[count] = pattern: inside the array, or outside it (the process  *)
(* is killed, or the write lands in another object).                        *)
add_write(t) ==
    /\ ~crashed
    /\ pc = "race"
    /\ procs[t].pc = "write"
    /\ procs' = [procs EXCEPT ![t].pc = "inc",
                              ![t].idx = memory.count,
                              ![t].outside = (memory.count >= memory.slots)]
    /\ IF memory.count < memory.slots
       THEN /\ memory' = [memory EXCEPT
                            !.patterns = WriteAt(@, memory.count + 1, procs[t].pattern)]
            /\ UNCHANGED crashed
       ELSE \/ crashed' = TRUE /\ UNCHANGED memory
            \/ /\ \E v \in {procs[t].pattern, Uninit} :
                     memory' = [memory EXCEPT
                                  !.patterns = WriteAt(@, memory.count + 1, v)]
               /\ UNCHANGED crashed
    /\ UNCHANGED <<buffers, composed, request0, failedStep, heap0, analyzed>>
    /\ UNCHANGED <<heap, cap0, added, wbVars, sessVars, pc, lastCall>>

(* An increment that reads count again. *)
IncrementedAfresh(mem, idx) == mem.count + 1

(* count++: the value read for the index, plus one, is stored. *)
Incremented(mem, idx) == idx + 1

add_inc(t) ==
    /\ ~crashed
    /\ pc = "race"
    /\ procs[t].pc = "inc"
    /\ memory' = [memory EXCEPT !.count = Incremented(memory, procs[t].idx)]
    /\ added' = Append(added, procs[t].pattern)
    /\ procs' = [procs EXCEPT ![t].pc = "done"]
    /\ UNCHANGED <<buffers, composed, request0, failedStep, heap0, analyzed>>
    /\ UNCHANGED <<heap, cap0, wbVars, sessVars, pc, crashed, lastCall>>

(* A store with an allocated array that holds count0 patterns already. *)
FilledMemory(capacity, count0) ==
    [NewMemory(capacity, TRUE) EXCEPT
        !.patterns = [i \in 1..capacity |-> IF i <= count0 THEN "p1" ELSE Uninit],
        !.count    = count0]

InitConcurrent ==
    /\ \E c \in 1..MaxInitCap : \E k \in 0..c :
          /\ memory = FilledMemory(c, k)
          /\ cap0 = c
          /\ added = [i \in 1..k |-> "p1"]
    /\ heap = InitHeap
    /\ pc = "race"
    /\ workbench = NoWorkbench
    /\ request0 = NULL
    /\ InitRest

NextConcurrent ==
    \E t \in Procs :
        \/ \E p \in PatternPtrs : add_test(t, p)
        \/ add_grow(t)
        \/ add_write(t)
        \/ add_inc(t)

SpecConcurrent == InitConcurrent /\ [][NextConcurrent]_vars

Completed == Cardinality({t \in Procs : procs[t].pc = "done"})
Before    == Len(added) - Completed

(* C13 - Concurrent ingestion is unsafe: when the two calls have returned,  *)
(* count has grown by the number of different indexes the calls wrote at,   *)
(* not by the number of calls, so two calls that read the same count leave  *)
(* count one short and one slot for two patterns (the slot holds one of     *)
(* them, the other is lost); and a call writes outside the array only when  *)
(* the other call has moved count after this call's test.  The state with   *)
(* a lost pattern and count short of the completed calls is reachable.      *)
C13_RaceOutcome ==
    (pc = "race" /\ ~crashed /\ Completed = Cardinality(Procs)) =>
        /\ memory.count = Before + Cardinality({procs[t].idx : t \in Procs})
        /\ \A t \in Procs : ~procs[t].outside =>
              \E u \in Procs : /\ procs[u].idx = procs[t].idx
                               /\ memory.patterns[procs[t].idx + 1] = procs[u].pattern
        /\ \A t \in Procs : procs[t].outside =>
              \E u \in Procs : procs[u].idx < procs[t].idx

C13_Witness ==
    /\ pc = "race"
    /\ ~crashed
    /\ Completed = 2
    /\ procs["t1"].idx = procs["t2"].idx
    /\ procs["t1"].pattern # procs["t2"].pattern
    /\ memory.count = Before + 1
    /\ \E t \in Procs :
          \A i \in 1..memory.count : memory.patterns[i] # procs[t].pattern

----------------------------------------------------------------------------
(* analyze_code_complexity *)

MaxAnalyze == 3

(* x + 1.0 in double arithmetic, rounding to nearest, ties to even.  Up to  *)
(* 2^53 the sum is exact.  From 2^53 on, x is even and x + 1 lies halfway   *)
(* between the doubles x and x + 2: the one with the even significand is    *)
(* the result (the significand of 2^53 + d is 2^52 + d/2).                  *)
DoubleAddOne(x) ==
    IF IsExactInt(x) THEN [x EXCEPT !.v = @ + CODE_COMPLEXITY_FACTOR]
    ELSE IF (x.v \div 2) % 2 = 0 THEN x
    ELSE [x EXCEPT !.v = @ + 2 * CODE_COMPLEXITY_FACTOR]

(* An analysis that raises the complexity of every pattern. *)
AnalyzedAll(h, pattern) ==
    [q \in DOMAIN h |-> [h[q] EXCEPT !.complexity = DoubleAddOne(@)]]

(* pattern->complexity += CODE_COMPLEXITY_FACTOR *)
Analyzed(h, pattern) ==
    [h EXCEPT ![pattern].complexity = DoubleAddOne(@)]

analyze_code_complexity(pattern) ==
    /\ ~crashed
    /\ pc = "main"
    /\ analyzed[pattern] < MaxAnalyze
    /\ heap' = Analyzed(heap, pattern)
    /\ analyzed' = [analyzed EXCEPT ![pattern] = @ + 1]
    /\ UNCHANGED <<procs, buffers, composed, request0, failedStep, heap0>>
    /\ UNCHANGED <<memory, cap0, added, wbVars, sessVars, pc, crashed>>
    /\ Called("analyze_code_complexity", pattern)

(* The complexities the patterns are created with. *)
Complexities ==
    {Double(0), Double(1), Double(2),
     NearTwo53(0 - 2), NearTwo53(0 - 1), NearTwo53(0), NearTwo53(2)}

InitAnalyze ==
    /\ \E c \in 1..MaxInitCap :
          /\ memory = NewMemory(c, TRUE)
          /\ cap0 = c
    /\ \E x \in Complexities :
          heap = [p \in PatternPtrs |->
                    IF p = "p1" THEN create_code_pattern("int x;", "c", x)
                                ELSE create_code_pattern("pass", "python", Double(2))]
    /\ added = <<>>
    /\ pc = "main"
    /\ workbench = NoWorkbench
    /\ request0 = NULL
    /\ InitRest

NextAnalyze ==
    \/ \E p \in PatternPtrs : add_pattern_to_memory(p)
    \/ \E p \in PatternPtrs : analyze_code_complexity(p)

SpecAnalyze == InitAnalyze /\ [][NextAnalyze]_vars

(* The pattern with its complexity raised by n, in exact arithmetic. *)
Raised(pat, n) == [pat EXCEPT !.complexity.v = @ + n]

AnalyzeFrame ==
    /\ memory' = memory
    /\ added' = added
    /\ \A q \in PatternPtrs \ {lastCall'.arg} : heap'[q] = heap[q]
    /\ heap'[lastCall'.arg].code_snippet = heap[lastCall'.arg].code_snippet
    /\ heap'[lastCall'.arg].language = heap[lastCall'.arg].language

(* C17 as stated, for every complexity: every call raises the complexity    *)
(* by exactly 1, n calls raise it by n, and nothing else changes.           *)
C17_AddsOneAlways ==
    /\ [](\A p \in PatternPtrs : heap[p] = Raised(heap0[p], analyzed[p]))
    /\ [][analyzed' # analyzed =>
            /\ heap'[lastCall'.arg] = Raised(heap[lastCall'.arg], 1)
            /\ AnalyzeFrame]_vars

(* C17, with the arithmetic of the code - analyze_code_complexity adds 1.0  *)
(* to the complexity of the given pattern as doubles add: a call on an      *)
(* integer-valued complexity                                                *)
(* below 2^53 raises it by exactly 1, and n calls raise it by n as long as  *)
(* the results stay at or below 2^53; from 2^53 on the sum is rounded, and  *)
(* a call leaves the complexity as it is or raises it by 2.  A call changes *)
(* nothing else: the pattern's snippet and language, every other pattern,   *)
(* and the store's count, capacity and order are as before.                 *)
C17_AddsOneWhereExact ==
    /\ [](\A p \in PatternPtrs :
            (~heap0[p].complexity.big \/ heap0[p].complexity.v + analyzed[p] <= 0)
                => heap[p] = Raised(heap0[p], analyzed[p]))
    /\ [][analyzed' # analyzed =>
            /\ IF IsExactInt(heap[lastCall'.arg].complexity)
               THEN heap'[lastCall'.arg] = Raised(heap[lastCall'.arg], 1)
               ELSE heap'[lastCall'.arg] \in {heap[lastCall'.arg],
                                              Raised(heap[lastCall'.arg], 2)}
            /\ AnalyzeFrame]_vars

C17_Witness ==
    /\ analyzed["p1"] = 2
    /\ heap0["p1"].complexity = NearTwo53(0 - 2)
    /\ heap["p1"].complexity = NearTwo53(0)
    /\ analyzed["p2"] = 3
    /\ heap["p2"].complexity = Double(5)
    /\ memory.count = 2
    /\ lastCall.op = "analyze_code_complexity"

====
